---- MODULE Spec2Model ----
(***************************************************************************)
(* State-machine model of BoxCalculator (src/data/box_calculator.py): the  *)
(* lazily computed background, the bounding-box cache, the sequential and  *)
(* the process-parallel batch computation.                                 *)
(*                                                                         *)
(* Frames are one-row images of Width pixels.  The OpenCV calls of         *)
(* _calc_bounding_box are modelled on such rows: absdiff and the strict    *)
(* threshold pixel by pixel, the contours as the maximal runs of           *)
(* foreground pixels, the largest contour as the longest run (the first    *)
(* one from the left on a tie), boundingRect as (x, 0, w, 1).  The 5x5     *)
(* opening and the 11x11 dilation need images larger than the kernels and  *)
(* are left out.                                                           *)
(***************************************************************************)
EXTENDS Integers, Sequences, FiniteSets, TLC

\* ---------------------------------------------------------------- bounds
MaxN == 2
MaxProbes == 2
MaxLen == 4
MaxChunk == 2
MaxChunks == 3
MaxWorkers == 2
MaxRuns == 2
MaxTasks == 12
MaxChunkSize == 4
MaxAsked == 8
MaxCpu == 12

\* ------------------------------------------------------- program constants
Width == 3
Bright == 50
DefaultThresh == 10

Sentinel == <<-1, -1, -1, -1>>
ZeroBox == <<0, 0, 0, 0>>
None == <<>>

Min(a, b) == IF a <= b THEN a ELSE b
Abs(a) == IF a < 0 THEN -a ELSE a

\* The frames a FrameReader holds: the empty scene, or an object on all
\* pixels but the first.
EmptyFrame == [p \in 1 .. Width |-> 0]
ObjectFrame == [p \in 1 .. Width |-> IF p = 1 THEN 0 ELSE Bright]

\* FrameReader.__len__ and FrameReader.__getitem__: frames are indexed 0..N-1
\* and an index outside that range raises IndexError.
ReaderLen(reader) == Cardinality(DOMAIN reader)
ReaderHas(reader, idx) == idx \in DOMAIN reader

\* ------------------------------------------------------- _calc_background
\* The k-th smallest (k = 1..) of the values vals[j], j in S.
KthSmallest(vals, S, k) ==
  CHOOSE v \in { vals[j] : j \in S } :
    /\ Cardinality({ j \in S : vals[j] < v }) < k
    /\ Cardinality({ j \in S : vals[j] <= v }) >= k

\* np.median along the time axis, then astype(uint8): the middle value, or
\* the mean of the two middle values cut to an integer.
MedianU8(vals, S) ==
  LET k == Cardinality(S)
  IN  IF k % 2 = 1
        THEN KthSmallest(vals, S, (k + 1) \div 2)
        ELSE (KthSmallest(vals, S, k \div 2) + KthSmallest(vals, S, k \div 2 + 1)) \div 2

\* size = min(bg_probes, length)
SampleSize(probes, length) == Min(probes, length)

\* (mutant) np.random.choice(length, size) with replacement: the size draws
\* may hit a frame more than once, leaving fewer distinct frames.
SampleChoices_Replace(probes, length) ==
  { S \in SUBSET (0 .. length - 1) :
      Cardinality(S) >= 1 /\ Cardinality(S) <= SampleSize(probes, length) }

\* np.random.choice(length, size, replace=False): any set of size distinct
\* frame indices.
SampleChoices(probes, length) ==
  { S \in SUBSET (0 .. length - 1) : Cardinality(S) = SampleSize(probes, length) }

\* The per-pixel median of the sampled frames.
MedianOf(reader, S) ==
  [p \in 1 .. Width |-> MedianU8([j \in S |-> reader[j][p]], S)]

\* -------------------------------------------------- _calc_bounding_box
\* cv.absdiff and cv.threshold(diff, thresh, 255, THRESH_BINARY): the pixels
\* (columns 0..Width-1) whose difference is strictly above the threshold.
Mask(frame, background, thresh) ==
  { x \in 0 .. Width - 1 : Abs(frame[x + 1] - background[x + 1]) > thresh }

\* cv.findContours(RETR_EXTERNAL): the maximal runs <<x, w>> of the mask.
Contours(mask) ==
  { r \in (0 .. Width - 1) \X (1 .. Width) :
      /\ \A x \in r[1] .. r[1] + r[2] - 1 : x \in mask
      /\ (r[1] - 1) \notin mask
      /\ (r[1] + r[2]) \notin mask }

\* (mutant) the box padded on each side by the 5 pixels of the dilation and
\* not clipped to the image.
LargestBox_Padded(contours) ==
  LET best == CHOOSE r \in contours :
                \A q \in contours : q[2] < r[2] \/ (q[2] = r[2] /\ r[1] <= q[1])
  IN  <<best[1] - 5, 0, best[2] + 10, 1>>

\* max(contours, key=cv.contourArea) and cv.boundingRect.
LargestBox(contours) ==
  LET best == CHOOSE r \in contours :
                \A q \in contours : q[2] < r[2] \/ (q[2] = r[2] /\ r[1] <= q[1])
  IN  <<best[1], 0, best[2], 1>>

\* The box _calc_bounding_box computes for a frame against a background.
ExtractBox(frame, background, thresh) ==
  LET contours == Contours(Mask(frame, background, thresh))
  IN  IF contours = {} THEN ZeroBox ELSE LargestBox(contours)

\* ---------------------------------------------------------------- caches
\* (mutant) np.zeros((len(frame_reader), 4)) instead of np.full(..., -1).
EmptyCache_Zeros(n) == [i \in 0 .. n - 1 |-> ZeroBox]

\* np.full((len(frame_reader), 4), -1): one sentinel row per frame.
EmptyCache(n) == [i \in 0 .. n - 1 |-> Sentinel]

\* numpy row indexing self._all_bboxes[frame_idx]: a negative index counts
\* from the end, an index outside -n .. n-1 raises IndexError.
RowInRange(cache, idx) ==
  LET n == Cardinality(DOMAIN cache) IN idx >= -n /\ idx < n

Row(cache, idx) ==
  IF idx < 0 THEN idx + Cardinality(DOMAIN cache) ELSE idx

\* (mutant) line 110 writing the zero box into row 0 instead of the row of
\* the frame.
CalcBoundingBox_RowZero(cache, reader, bg, thresh, idx) ==
  LET box == ExtractBox(reader[idx], bg, thresh)
  IN  [box |-> box,
       cache |-> IF box = ZeroBox THEN [cache EXCEPT ![0] = ZeroBox]
                                  ELSE cache]

\* _calc_bounding_box with the background already there: the box, and the
\* cache after the write of line 110 (only when no contour is found).
CalcBoundingBox(cache, reader, bg, thresh, idx) ==
  LET box == ExtractBox(reader[idx], bg, thresh)
  IN  [box |-> box,
       cache |-> IF box = ZeroBox THEN [cache EXCEPT ![Row(cache, idx)] = ZeroBox]
                                  ELSE cache]

\* (mutant) get_bbox without the test of line 61: every call recomputes.
GetBboxOn_NoMemo(cache, reader, bg, thresh, idx) ==
  LET fail == [ok |-> FALSE, box |-> Sentinel, cache |-> cache,
               ran |-> FALSE, view |-> FALSE]
  IN  IF ~RowInRange(cache, idx) \/ ~ReaderHas(reader, idx) THEN fail
      ELSE LET c == CalcBoundingBox(cache, reader, bg, thresh, idx)
           IN  [ok |-> TRUE, box |-> c.box,
                cache |-> [c.cache EXCEPT ![Row(cache, idx)] = c.box],
                ran |-> TRUE, view |-> FALSE]

\* (mutant) get_bbox that computes and stores the box but returns the row as
\* it read it at line 60.
GetBboxOn_Stale(cache, reader, bg, thresh, idx) ==
  LET fail == [ok |-> FALSE, box |-> Sentinel, cache |-> cache,
               ran |-> FALSE, view |-> FALSE]
  IN  IF ~RowInRange(cache, idx) THEN fail
      ELSE IF cache[Row(cache, idx)][1] # -1
        THEN [ok |-> TRUE, box |-> cache[Row(cache, idx)], cache |-> cache,
              ran |-> FALSE, view |-> TRUE]
      ELSE IF ~ReaderHas(reader, idx) THEN fail
      ELSE LET c == CalcBoundingBox(cache, reader, bg, thresh, idx)
           IN  [ok |-> TRUE, box |-> cache[Row(cache, idx)],
                cache |-> [c.cache EXCEPT ![Row(cache, idx)] = c.box],
                ran |-> TRUE, view |-> FALSE]

\* get_bbox(frame_idx) on one copy of the instance whose background is set:
\*   ok    - FALSE when IndexError is raised (by the array or by the reader)
\*   box   - the value returned
\*   cache - the copy's cache afterwards
\*   ran   - whether _calc_bounding_box ran to its end
\*   view  - whether the value returned is a view of the cache row
GetBboxOn(cache, reader, bg, thresh, idx) ==
  LET fail == [ok |-> FALSE, box |-> Sentinel, cache |-> cache,
               ran |-> FALSE, view |-> FALSE]
  IN  IF ~RowInRange(cache, idx) THEN fail
      ELSE IF cache[Row(cache, idx)][1] # -1
        THEN [ok |-> TRUE, box |-> cache[Row(cache, idx)], cache |-> cache,
              ran |-> FALSE, view |-> TRUE]
      ELSE IF ~ReaderHas(reader, idx) THEN fail
      ELSE LET c == CalcBoundingBox(cache, reader, bg, thresh, idx)
           IN  [ok |-> TRUE, box |-> c.box,
                cache |-> [c.cache EXCEPT ![Row(cache, idx)] = c.box],
                ran |-> TRUE, view |-> FALSE]

\* get_bbox over a list of indices, in order, on one copy, up to the first
\* index that raises: the loop of line 170, and _process_chunk in a worker.
\*   out - the values returned, log - the indices whose extraction ran.
RECURSIVE RunIndices(_, _, _, _, _)
RunIndices(cache, reader, bg, thresh, idxs) ==
  IF idxs = <<>>
    THEN [ok |-> TRUE, cache |-> cache, out |-> <<>>, log |-> <<>>]
    ELSE LET g == GetBboxOn(cache, reader, bg, thresh, Head(idxs))
         IN  IF ~g.ok
               THEN [ok |-> FALSE, cache |-> g.cache, out |-> <<>>, log |-> <<>>]
               ELSE LET r == RunIndices(g.cache, reader, bg, thresh, Tail(idxs))
                    IN  [ok |-> r.ok, cache |-> r.cache,
                         out |-> <<g.box>> \o r.out,
                         log |-> (IF g.ran THEN <<Head(idxs)>> ELSE <<>>) \o r.log]

\* (mutant) the rows in ascending order of the indices.
Rows_Ascending(cache, idxs) ==
  LET sorted == SortSeq(idxs, LAMBDA a, b : a < b)
  IN  [k \in 1 .. Len(idxs) |-> cache[Row(cache, sorted[k])]]

\* self._all_bboxes[frame_indices, :]: the rows, in the order asked for.
Rows(cache, idxs) == [k \in 1 .. Len(idxs) |-> cache[Row(cache, idxs[k])]]

\* -------------------------------------------------- _adjust_num_workers
\* Python's round(p / q) for p >= 0, q > 0: to the nearest integer, a half
\* to the even one.
RoundHalfEven(p, q) ==
  LET fl == p \div q
      twice == 2 * (p % q)
  IN  IF twice < q THEN fl
      ELSE IF twice > q THEN fl + 1
      ELSE IF fl % 2 = 0 THEN fl ELSE fl + 1

\* (mutant) a quarter of the processors instead of half of them.
AutoWorkers_Quarter(num_tasks, chunk_size, cpu) ==
  IF cpu * chunk_size <= 2 * num_tasks
    THEN RoundHalfEven(cpu, 4)
    ELSE RoundHalfEven(num_tasks, 2 * chunk_size)

\* round(min(cpu_count / 2, num_tasks / (2 * chunk_size)))
AutoWorkers(num_tasks, chunk_size, cpu) ==
  IF cpu * chunk_size <= num_tasks
    THEN RoundHalfEven(cpu, 2)
    ELSE RoundHalfEven(num_tasks, 2 * chunk_size)

\* (mutant) _adjust_num_workers without the clamp of line 125.
AdjustNumWorkers_NoClamp(num_tasks, chunk_size, num_workers, cpu) ==
  LET asked == IF num_workers = <<>>
                 THEN AutoWorkers(num_tasks, chunk_size, cpu)
                 ELSE num_workers[1]
  IN  IF asked <= 1 THEN 0 ELSE asked

\* num_workers is <<>> for None and <<k>> for the integer k.
AdjustNumWorkers(num_tasks, chunk_size, num_workers, cpu) ==
  LET asked == IF num_workers = <<>>
                 THEN AutoWorkers(num_tasks, chunk_size, cpu)
                 ELSE num_workers[1]
      capped == Min(asked, num_tasks \div chunk_size)
  IN  IF capped <= 1 THEN 0 ELSE capped

\* concurrent.futures _get_chunks: consecutive pieces of chunk_size indices,
\* the last one possibly shorter.
RECURSIVE GetChunks(_, _)
GetChunks(idxs, chunk_size) ==
  IF Len(idxs) <= chunk_size
    THEN <<idxs>>
    ELSE <<SubSeq(idxs, 1, chunk_size)>>
           \o GetChunks(SubSeq(idxs, chunk_size + 1, Len(idxs)), chunk_size)

\* ----------------------------------------------------------------- state
VARIABLES
  pc,           \* "new" (no instance yet), "idle", "parallel" (inside
                \* process_map), "returned" (the caller holds the result)
  frame_reader, \* self.frame_reader: frame index -> frame
  bg_probes,    \* self.bg_probes
  diff_thresh,  \* self.diff_thresh
  all_bboxes,   \* self._all_bboxes: frame index -> box
  background,   \* self._background: None or a frame-shaped array
  chunks,       \* the work items of the running process_map, one per chunk
  workers,      \* the worker count of the last batch call (0: sequential)
  lastOp,       \* the last call made on the instance
  args,         \* its frame index or indices
  ret,          \* what it returned (a sequence of rows), <<>> when it raised
  err,          \* "none", or the error it raised
  view,         \* the cache rows the returned value is a numpy view of
  before,       \* the cache when the last call started
  bgRuns,       \* how often _calc_background ran in the orchestrating process
  bgSample,     \* the frame indices its last run sampled
  parentRuns,   \* per frame: extractions that ran in the orchestrating process
  runs          \* per frame: extractions that ran in any process

vars == <<pc, frame_reader, bg_probes, diff_thresh, all_bboxes, background,
          chunks, workers, lastOp, args, ret, err, view, before, bgRuns,
          bgSample, parentRuns, runs>>

config == <<frame_reader, bg_probes, diff_thresh>>
history == <<bgRuns, bgSample, parentRuns, runs>>

N == ReaderLen(frame_reader)

CountIn(log, i) == Cardinality({ k \in 1 .. Len(log) : log[k] = i })

\* The run counters after the extractions of log, counted up to MaxRuns.
AddRuns(count, log) ==
  [i \in DOMAIN count |-> Min(count[i] + CountIn(log, i), MaxRuns)]

AsRows(cache) == [k \in 1 .. Cardinality(DOMAIN cache) |-> cache[k - 1]]

Init ==
  /\ pc = "new"
  /\ frame_reader = <<>>
  /\ bg_probes = 0
  /\ diff_thresh = 0
  /\ all_bboxes = <<>>
  /\ background = None
  /\ chunks = <<>>
  /\ workers = 0
  /\ lastOp = "none"
  /\ args = <<>>
  /\ ret = <<>>
  /\ err = "none"
  /\ view = {}
  /\ before = <<>>
  /\ bgRuns = 0
  /\ bgSample = {}
  /\ parentRuns = <<>>
  /\ runs = <<>>

\* BoxCalculator(frame_reader, bg_probes, diff_thresh)
Construct(reader, probes, thresh) ==
  /\ pc = "new"
  /\ lastOp' = "init"
  /\ IF probes > 0 /\ thresh > 0
       THEN /\ pc' = "returned"
            /\ frame_reader' = reader
            /\ bg_probes' = probes
            /\ diff_thresh' = thresh
            /\ all_bboxes' = EmptyCache(ReaderLen(reader))
            /\ background' = None
            /\ before' = EmptyCache(ReaderLen(reader))
            /\ parentRuns' = [i \in DOMAIN reader |-> 0]
            /\ runs' = [i \in DOMAIN reader |-> 0]
            /\ err' = "none"
       ELSE /\ err' = "AssertionError"
            /\ UNCHANGED <<pc, config, all_bboxes, background, before,
                           parentRuns, runs>>
  /\ UNCHANGED <<chunks, workers, args, ret, view, bgRuns, bgSample>>

\* BoxCalculator(frame_reader, bg_probes, diff_thresh) in an interpreter
\* started with -O (or PYTHONOPTIMIZE set): the assert statement of line 29
\* is compiled away and lines 31-36 run for every argument.
ConstructOptimized(reader, probes, thresh) ==
  /\ pc = "new"
  /\ lastOp' = "init"
  /\ pc' = "returned"
  /\ frame_reader' = reader
  /\ bg_probes' = probes
  /\ diff_thresh' = thresh
  /\ all_bboxes' = EmptyCache(ReaderLen(reader))
  /\ background' = None
  /\ before' = EmptyCache(ReaderLen(reader))
  /\ parentRuns' = [i \in DOMAIN reader |-> 0]
  /\ runs' = [i \in DOMAIN reader |-> 0]
  /\ err' = "none"
  /\ UNCHANGED <<chunks, workers, args, ret, view, bgRuns, bgSample>>

\* _calc_background cannot make a background from no frame: with size <= 0
\* np.random.choice (size < 0) or np.stack of an empty list (size = 0)
\* raises ValueError.
BackgroundFails == background = None /\ SampleSize(bg_probes, N) <= 0

\* all_bboxes(): the cache array itself.
AllBboxes ==
  /\ pc = "idle"
  /\ lastOp' = "all_bboxes"
  /\ args' = <<>>
  /\ ret' = AsRows(all_bboxes)
  /\ err' = "none"
  /\ view' = DOMAIN all_bboxes
  /\ before' = all_bboxes
  /\ pc' = "returned"
  /\ UNCHANGED <<config, all_bboxes, background, chunks, workers, history>>

\* (mutant) get_background without the test of line 74: every call samples
\* and computes afresh.
GetBackground_Always ==
  /\ pc = "idle"
  /\ ~BackgroundFails
  /\ \E S \in SampleChoices(bg_probes, N) :
       /\ background' = MedianOf(frame_reader, S)
       /\ bgSample' = S
  /\ bgRuns' = Min(bgRuns + 1, MaxRuns)
  /\ lastOp' = "get_background"
  /\ args' = <<>>
  /\ ret' = <<background'>>
  /\ err' = "none"
  /\ view' = {}
  /\ before' = all_bboxes
  /\ pc' = "returned"
  /\ UNCHANGED <<config, all_bboxes, chunks, workers, parentRuns, runs>>

\* get_background(): _calc_background on the first call only.
GetBackground ==
  /\ pc = "idle"
  /\ ~BackgroundFails
  /\ \E S \in (IF background = None THEN SampleChoices(bg_probes, N) ELSE {bgSample}) :
       /\ background' = IF background = None THEN MedianOf(frame_reader, S)
                                              ELSE background
       /\ bgRuns' = IF background = None THEN Min(bgRuns + 1, MaxRuns) ELSE bgRuns
       /\ bgSample' = S
  /\ lastOp' = "get_background"
  /\ args' = <<>>
  /\ ret' = <<background'>>
  /\ err' = "none"
  /\ view' = {}
  /\ before' = all_bboxes
  /\ pc' = "returned"
  /\ UNCHANGED <<config, all_bboxes, chunks, workers, parentRuns, runs>>

\* get_background() when _calc_background raises: nothing is assigned.
GetBackgroundRaises ==
  /\ pc = "idle"
  /\ BackgroundFails
  /\ lastOp' = "get_background"
  /\ args' = <<>>
  /\ ret' = <<>>
  /\ err' = "ValueError"
  /\ view' = {}
  /\ before' = all_bboxes
  /\ pc' = "returned"
  /\ UNCHANGED <<config, all_bboxes, background, chunks, workers, history>>

\* get_bbox(frame_idx) reaches line 97 with no background yet: the row is a
\* sentinel and the reader has the frame (line 96 comes first).
NeedsBackground(idx) ==
  /\ RowInRange(all_bboxes, idx)
  /\ all_bboxes[Row(all_bboxes, idx)][1] = -1
  /\ ReaderHas(frame_reader, idx)
  /\ background = None

\* get_bbox(frame_idx) when the background it needs cannot be made: the
\* ValueError of _calc_background comes up before any row is written.
GetBboxRaises(idx) ==
  /\ pc = "idle"
  /\ NeedsBackground(idx)
  /\ BackgroundFails
  /\ lastOp' = "get_bbox"
  /\ args' = <<idx>>
  /\ ret' = <<>>
  /\ err' = "ValueError"
  /\ view' = {}
  /\ before' = all_bboxes
  /\ pc' = "returned"
  /\ UNCHANGED <<config, all_bboxes, background, chunks, workers, history>>

\* get_bbox(frame_idx) in the orchestrating process.  The background is
\* computed on the way (line 97) only when it is needed.
GetBbox(idx) ==
  /\ pc = "idle"
  /\ ~(NeedsBackground(idx) /\ BackgroundFails)
  /\ LET need == NeedsBackground(idx)
     IN  \E S \in (IF need THEN SampleChoices(bg_probes, N) ELSE {bgSample}) :
           LET bg == IF need THEN MedianOf(frame_reader, S) ELSE background
               g == GetBboxOn(all_bboxes, frame_reader, bg, diff_thresh, idx)
           IN  /\ background' = bg
               /\ bgRuns' = IF need THEN Min(bgRuns + 1, MaxRuns) ELSE bgRuns
               /\ bgSample' = S
               /\ all_bboxes' = g.cache
               /\ ret' = IF g.ok THEN <<g.box>> ELSE <<>>
               /\ err' = IF g.ok THEN "none" ELSE "IndexError"
               /\ view' = IF g.view THEN {Row(all_bboxes, idx)} ELSE {}
               /\ parentRuns' = AddRuns(parentRuns, IF g.ran THEN <<idx>> ELSE <<>>)
               /\ runs' = AddRuns(runs, IF g.ran THEN <<idx>> ELSE <<>>)
  /\ lastOp' = "get_bbox"
  /\ args' = <<idx>>
  /\ before' = all_bboxes
  /\ pc' = "returned"
  /\ UNCHANGED <<config, chunks, workers>>

\* ------------------------------------------------- calc_specified_boxes
\* Line 152, self.get_background(), as the first step of a batch call: the
\* samples it may draw, and the background it leaves.
BatchSamples == IF background = None THEN SampleChoices(bg_probes, N) ELSE {bgSample}
BatchBackground(S) == IF background = None THEN MedianOf(frame_reader, S) ELSE background

\* The work items process_map submits: one per chunk, each pickled with its
\* own copy of the instance (self.get_bbox is a bound method).
WorkItems(idxs, chunk_size, cache, bg) ==
  LET pieces == GetChunks(idxs, chunk_size)
  IN  [k \in 1 .. Len(pieces) |->
         [idxs |-> pieces[k], status |-> "queued", cache |-> cache, bg |-> bg,
          out |-> <<>>, log |-> <<>>, bgran |-> FALSE]]

\* (mutant) a sequential batch that puts the cache back as it was when an
\* index raises.
CalcSequential_Atomic(op, idxs, num_workers, chunk_size, cpu) ==
  /\ pc = "idle"
  /\ ~BackgroundFails
  /\ AdjustNumWorkers(Len(idxs), chunk_size, num_workers, cpu) = 0
  /\ \E S \in BatchSamples :
       LET r == RunIndices(all_bboxes, frame_reader, BatchBackground(S),
                           diff_thresh, idxs)
       IN  /\ background' = BatchBackground(S)
           /\ bgRuns' = IF background = None THEN Min(bgRuns + 1, MaxRuns) ELSE bgRuns
           /\ bgSample' = S
           /\ all_bboxes' = IF r.ok THEN r.cache ELSE all_bboxes
           /\ ret' = IF r.ok THEN Rows(r.cache, idxs) ELSE <<>>
           /\ err' = IF r.ok THEN "none" ELSE "IndexError"
           /\ parentRuns' = AddRuns(parentRuns, r.log)
           /\ runs' = AddRuns(runs, r.log)
  /\ lastOp' = op
  /\ args' = idxs
  /\ workers' = 0
  /\ view' = {}
  /\ before' = all_bboxes
  /\ pc' = "returned"
  /\ UNCHANGED <<config, chunks>>

\* The sequential path (lines 169-174): get_bbox index by index, then the
\* rows asked for.  An index that raises ends the call; the rows written
\* before it stay.
CalcSequential(op, idxs, num_workers, chunk_size, cpu) ==
  /\ pc = "idle"
  /\ ~BackgroundFails
  /\ AdjustNumWorkers(Len(idxs), chunk_size, num_workers, cpu) = 0
  /\ \E S \in BatchSamples :
       LET r == RunIndices(all_bboxes, frame_reader, BatchBackground(S),
                           diff_thresh, idxs)
       IN  /\ background' = BatchBackground(S)
           /\ bgRuns' = IF background = None THEN Min(bgRuns + 1, MaxRuns) ELSE bgRuns
           /\ bgSample' = S
           /\ all_bboxes' = r.cache
           /\ ret' = IF r.ok THEN Rows(r.cache, idxs) ELSE <<>>
           /\ err' = IF r.ok THEN "none" ELSE "IndexError"
           /\ parentRuns' = AddRuns(parentRuns, r.log)
           /\ runs' = AddRuns(runs, r.log)
  /\ lastOp' = op
  /\ args' = idxs
  /\ workers' = 0
  /\ view' = {}
  /\ before' = all_bboxes
  /\ pc' = "returned"
  /\ UNCHANGED <<config, chunks>>

\* (mutant) the chunks are submitted without line 152: the copies carry
\* the background as it was, possibly None.
Dispatch_NoBackground(op, idxs, num_workers, chunk_size, cpu) ==
  /\ pc = "idle"
  /\ AdjustNumWorkers(Len(idxs), chunk_size, num_workers, cpu) > 0
  /\ chunks' = WorkItems(idxs, chunk_size, all_bboxes, background)
  /\ pc' = "parallel"
  /\ workers' = AdjustNumWorkers(Len(idxs), chunk_size, num_workers, cpu)
  /\ lastOp' = op
  /\ args' = idxs
  /\ ret' = <<>>
  /\ err' = "none"
  /\ view' = {}
  /\ before' = all_bboxes
  /\ UNCHANGED <<config, all_bboxes, background, history>>

\* The parallel path up to process_map's submission of the chunks (lines
\* 152-164): the background first, then one work item per chunk.
Dispatch(op, idxs, num_workers, chunk_size, cpu) ==
  /\ pc = "idle"
  /\ ~BackgroundFails
  /\ AdjustNumWorkers(Len(idxs), chunk_size, num_workers, cpu) > 0
  /\ \E S \in BatchSamples :
       /\ background' = BatchBackground(S)
       /\ bgRuns' = IF background = None THEN Min(bgRuns + 1, MaxRuns) ELSE bgRuns
       /\ bgSample' = S
       /\ chunks' = WorkItems(idxs, chunk_size, all_bboxes, BatchBackground(S))
  /\ pc' = "parallel"
  /\ workers' = AdjustNumWorkers(Len(idxs), chunk_size, num_workers, cpu)
  /\ lastOp' = op
  /\ args' = idxs
  /\ ret' = <<>>
  /\ err' = "none"
  /\ view' = {}
  /\ before' = all_bboxes
  /\ UNCHANGED <<config, all_bboxes, parentRuns, runs>>

\* (mutant) workers that are threads of the orchestrating process: chunk k
\* runs on the instance itself.
RunChunk_Shared(k) ==
  /\ pc = "parallel"
  /\ k \in DOMAIN chunks
  /\ chunks[k].status = "queued"
  /\ Cardinality({ j \in 1 .. k - 1 : chunks[j].status = "queued" }) < workers
  /\ LET r == RunIndices(all_bboxes, frame_reader, background, diff_thresh,
                         chunks[k].idxs)
     IN  /\ chunks' = [chunks EXCEPT ![k] =
                         [idxs |-> chunks[k].idxs,
                          status |-> IF r.ok THEN "done" ELSE "failed",
                          cache |-> r.cache, bg |-> background,
                          out |-> r.out, log |-> r.log, bgran |-> FALSE]]
         /\ all_bboxes' = r.cache
         /\ runs' = AddRuns(runs, r.log)
  /\ UNCHANGED <<pc, config, background, workers, lastOp, args, ret,
                 err, view, before, bgRuns, bgSample, parentRuns>>

\* A worker process runs chunk k (_process_chunk) on the chunk's own copy
\* of the instance.  The pool hands the chunks out in order to `workers`
\* processes, so chunk k runs while fewer than `workers` earlier chunks are
\* unfinished.  A copy without a background would compute its own (line 97).
RunChunk(k) ==
  /\ pc = "parallel"
  /\ k \in DOMAIN chunks
  /\ chunks[k].status = "queued"
  /\ Cardinality({ j \in 1 .. k - 1 : chunks[j].status = "queued" }) < workers
  /\ \E S \in (IF chunks[k].bg = None THEN SampleChoices(bg_probes, N) ELSE {{}}) :
       LET bg == IF chunks[k].bg = None THEN MedianOf(frame_reader, S) ELSE chunks[k].bg
           r == RunIndices(chunks[k].cache, frame_reader, bg, diff_thresh,
                           chunks[k].idxs)
       IN  /\ chunks' = [chunks EXCEPT ![k] =
                           [idxs |-> chunks[k].idxs,
                            status |-> IF r.ok THEN "done" ELSE "failed",
                            cache |-> r.cache,
                            bg |-> IF r.log # <<>> THEN bg ELSE chunks[k].bg,
                            out |-> r.out, log |-> r.log,
                            bgran |-> (chunks[k].bg = None /\ r.log # <<>>)]]
           /\ runs' = AddRuns(runs, r.log)
  /\ UNCHANGED <<pc, config, all_bboxes, background, workers, lastOp, args, ret,
                 err, view, before, bgRuns, bgSample, parentRuns>>

\* (mutant) the results of the chunks in the reverse of the order of
\* submission, as if collected as the chunks complete.
RECURSIVE Results_Reversed(_)
Results_Reversed(items) ==
  IF items = <<>> THEN <<>> ELSE Results_Reversed(Tail(items)) \o Head(items).out

\* The results of all chunks, in the order of the chunks (Executor.map).
RECURSIVE Results(_)
Results(items) ==
  IF items = <<>> THEN <<>> ELSE Head(items).out \o Results(Tail(items))

\* (mutant) the merge with the indices shifted by one:
\* zip(frame_indices[1:], bbox_list).
MergeRows_Shifted(cache, idxs, boxes) ==
  LET shifted == Tail(idxs)
  IN  [row \in DOMAIN cache |->
         IF \E k \in 1 .. Min(Len(shifted), Len(boxes)) : Row(cache, shifted[k]) = row
           THEN boxes[CHOOSE k \in 1 .. Min(Len(shifted), Len(boxes)) :
                        /\ Row(cache, shifted[k]) = row
                        /\ \A j \in k + 1 .. Min(Len(shifted), Len(boxes)) :
                             Row(cache, shifted[j]) # row]
           ELSE cache[row]]

\* for idx, bbox in zip(frame_indices, bbox_list): self._all_bboxes[idx] = bbox
RECURSIVE MergeRows(_, _, _)
MergeRows(cache, idxs, boxes) ==
  IF idxs = <<>> \/ boxes = <<>>
    THEN cache
    ELSE MergeRows([cache EXCEPT ![Row(cache, Head(idxs))] = Head(boxes)],
                   Tail(idxs), Tail(boxes))

\* process_map returned: every chunk is done.  Lines 166-174.
Merge ==
  /\ pc = "parallel"
  /\ \A k \in DOMAIN chunks : chunks[k].status = "done"
  /\ all_bboxes' = MergeRows(all_bboxes, args, Results(chunks))
  /\ ret' = Rows(all_bboxes', args)
  /\ err' = "none"
  /\ pc' = "returned"
  /\ chunks' = <<>>
  /\ UNCHANGED <<config, background, workers, lastOp, args, view, before, history>>

\* (mutant) a failing batch that first merges the results of the chunks
\* done before the failed one.
ParallelFail_Partial ==
  /\ pc = "parallel"
  /\ \E k \in DOMAIN chunks :
       /\ chunks[k].status = "failed"
       /\ \A j \in 1 .. k - 1 : chunks[j].status = "done"
       /\ all_bboxes' = MergeRows(all_bboxes, args, Results(SubSeq(chunks, 1, k - 1)))
  /\ ret' = <<>>
  /\ err' = "IndexError"
  /\ pc' = "returned"
  /\ chunks' = <<>>
  /\ UNCHANGED <<config, background, workers, lastOp, args, view,
                 before, history>>

\* (mutant) a failing batch that re-initialises the cache.
ParallelFail_Reset ==
  /\ pc = "parallel"
  /\ \E k \in DOMAIN chunks :
       /\ chunks[k].status = "failed"
       /\ \A j \in 1 .. k - 1 : chunks[j].status = "done"
  /\ all_bboxes' = EmptyCache(N)
  /\ ret' = <<>>
  /\ err' = "IndexError"
  /\ pc' = "returned"
  /\ chunks' = <<>>
  /\ UNCHANGED <<config, background, workers, lastOp, args, view,
                 before, history>>

\* process_map raised: the result iterator reached a chunk that failed (all
\* chunks before it are done).  Line 166 is never reached.
ParallelFail ==
  /\ pc = "parallel"
  /\ \E k \in DOMAIN chunks :
       /\ chunks[k].status = "failed"
       /\ \A j \in 1 .. k - 1 : chunks[j].status = "done"
  /\ ret' = <<>>
  /\ err' = "IndexError"
  /\ pc' = "returned"
  /\ chunks' = <<>>
  /\ UNCHANGED <<config, all_bboxes, background, workers, lastOp, args, view,
                 before, history>>

\* A write by the caller through the value the last call returned, when
\* that value is a view of the cache (all_bboxes(), a cached get_bbox()).
CallerWrite(row, box) ==
  /\ pc = "returned"
  /\ row \in view
  /\ all_bboxes' = [all_bboxes EXCEPT ![row] = box]
  /\ lastOp' = "caller_write"
  /\ args' = <<row>>
  /\ ret' = <<>>
  /\ err' = "none"
  /\ before' = all_bboxes
  /\ UNCHANGED <<pc, config, background, chunks, workers, view, history>>

\* The caller lets go of what the last call returned; the next call starts
\* from here.
Discard ==
  /\ pc = "returned"
  /\ pc' = "idle"
  /\ lastOp' = "none"
  /\ args' = <<>>
  /\ ret' = <<>>
  /\ err' = "none"
  /\ view' = {}
  /\ workers' = 0
  /\ before' = all_bboxes
  /\ UNCHANGED <<config, all_bboxes, background, chunks, history>>

\* ---------------------------------------------------------------- inputs
\* The frame sequences: n frames, the object showing in every second one.
Readers ==
  { [i \in 0 .. n - 1 |-> IF i % 2 = 1 THEN ObjectFrame ELSE EmptyFrame] :
      n \in 1 .. MaxN }
Probes == 0 .. MaxProbes
Threshes == {0, DefaultThresh}
\* Frame indices a batch call may list: the valid ones and N (out of range).
Indices == 0 .. N
\* The index lists of a batch call with the given chunk size: up to MaxLen
\* indices that make up to MaxChunks chunks.
IndexLists(chunk_size) ==
  UNION { [1 .. m -> Indices] : m \in 1 .. Min(MaxLen, MaxChunks * chunk_size) }
\* range(len(self.frame_reader))
AllIndices == [k \in 1 .. N |-> k - 1]
WorkerArgs == {<<>>} \cup { <<w>> : w \in 1 .. MaxWorkers }
ChunkSizes == 1 .. MaxChunk
\* multiprocessing.cpu_count() of the machine.
CpuCount == 4
WrittenBoxes == { <<7, 7, 7, 7>>, Sentinel }

CalcSpecifiedBoxes(idxs, num_workers, chunk_size, cpu) ==
  \/ CalcSequential("calc_specified_boxes", idxs, num_workers, chunk_size, cpu)
  \/ Dispatch("calc_specified_boxes", idxs, num_workers, chunk_size, cpu)

CalcAllBoxes(num_workers, chunk_size, cpu) ==
  \/ CalcSequential("calc_all_boxes", AllIndices, num_workers, chunk_size, cpu)
  \/ Dispatch("calc_all_boxes", AllIndices, num_workers, chunk_size, cpu)

Next ==
  \/ \E reader \in Readers, probes \in Probes, thresh \in Threshes :
       Construct(reader, probes, thresh)
  \/ AllBboxes
  \/ GetBackground
  \/ \E idx \in -(N + 1) .. N : GetBbox(idx)
  \/ \E c \in ChunkSizes, w \in WorkerArgs :
       \E idxs \in IndexLists(c) : CalcSpecifiedBoxes(idxs, w, c, CpuCount)
  \/ \E w \in WorkerArgs, c \in ChunkSizes : CalcAllBoxes(w, c, CpuCount)
  \/ \E k \in DOMAIN chunks : RunChunk(k)
  \/ Merge
  \/ ParallelFail
  \/ Discard

Spec == Init /\ [][Next]_vars

\* The query interface together with a caller that writes through the
\* values it was handed.
NextAlias ==
  \/ \E reader \in Readers, probes \in Probes, thresh \in Threshes :
       Construct(reader, probes, thresh)
  \/ AllBboxes
  \/ GetBackground
  \/ \E idx \in -(N + 1) .. N : GetBbox(idx)
  \/ \E row \in view, box \in WrittenBoxes : CallerWrite(row, box)
  \/ Discard

SpecAlias == Init /\ [][NextAlias]_vars

\* Construction and the query interface when the interpreter may or may
\* not have been started with -O.
NextOptimized ==
  \/ \E reader \in Readers, probes \in Probes, thresh \in Threshes :
       Construct(reader, probes, thresh)
  \/ \E reader \in Readers, probes \in Probes, thresh \in Threshes :
       ConstructOptimized(reader, probes, thresh)
  \/ AllBboxes
  \/ GetBackground
  \/ GetBackgroundRaises
  \/ \E idx \in -(N + 1) .. N : GetBbox(idx)
  \/ \E idx \in -(N + 1) .. N : GetBboxRaises(idx)
  \/ Discard

SpecOptimized == Init /\ [][NextOptimized]_vars

\* ------------------------------------------- _adjust_num_workers alone
\* The arguments of one call of _adjust_num_workers and the processor count
\* of the machine: small values, and the 40 and 1000 tasks in chunks of 50 of
\* the documented scenarios.
AdjustTasks == (0 .. MaxTasks) \cup {40, 1000}
AdjustChunks == (1 .. MaxChunkSize) \cup {50}
AdjustAsked == {<<>>} \cup { <<w>> : w \in -1 .. MaxAsked } \cup {<<25>>}
AdjustCpus == (1 .. MaxCpu) \cup {16, 32, 64}

\* A call of _adjust_num_workers(num_tasks, chunk_size, num_workers) about to
\* run; args holds <<num_tasks, chunk_size, num_workers, cpu_count>>.
InitAdjust ==
  /\ pc = "adjust"
  /\ lastOp = "_adjust_num_workers"
  /\ \E t \in AdjustTasks, c \in AdjustChunks, w \in AdjustAsked, cpu \in AdjustCpus :
       args = <<t, c, w, cpu>>
  /\ frame_reader = <<>>
  /\ bg_probes = 0
  /\ diff_thresh = 0
  /\ all_bboxes = <<>>
  /\ background = None
  /\ chunks = <<>>
  /\ workers = 0
  /\ ret = <<>>
  /\ err = "none"
  /\ view = {}
  /\ before = <<>>
  /\ bgRuns = 0
  /\ bgSample = {}
  /\ parentRuns = <<>>
  /\ runs = <<>>

\* The call runs to its return: workers is the count it resolved.
AdjustStep ==
  /\ pc = "adjust"
  /\ workers' = AdjustNumWorkers(args[1], args[2], args[3], args[4])
  /\ ret' = <<workers'>>
  /\ pc' = "adjusted"
  /\ UNCHANGED <<config, all_bboxes, background, chunks, lastOp, args, err, view,
                 before, history>>

NextAdjust == AdjustStep

SpecAdjust == InitAdjust /\ [][NextAdjust]_vars

\* ================================================================ claims
\* The box of frame i: what the extraction yields for it against the
\* instance's background.
BoxOf(i) == ExtractBox(frame_reader[i], background, diff_thresh)

Returned(op) == pc = "returned" /\ lastOp = op /\ err = "none"
BatchOps == {"calc_specified_boxes", "calc_all_boxes"}

\* C1 as stated: over the instance's lifetime the extraction runs at most
\* once per frame index, runs in worker processes included, and get_bbox of
\* a valid index returns the box of that frame every time.
C1_AtMostOnceAnywhere ==
  /\ \A i \in DOMAIN runs : runs[i] <= 1
  /\ (Returned("get_bbox") /\ args[1] \in DOMAIN frame_reader)
       => ret = <<BoxOf(args[1])>>

\* C1 amended: the extraction runs at most once per frame index in each copy
\* of the instance - at most once in the orchestrating process over its
\* lifetime, and at most once in the copy a chunk runs on - and get_bbox of
\* a valid index returns the box of that frame every time.
C1_AtMostOncePerCopy ==
  /\ \A i \in DOMAIN parentRuns : parentRuns[i] <= 1
  /\ \A k \in DOMAIN chunks : \A i \in DOMAIN frame_reader :
       CountIn(chunks[k].log, i) <= 1
  /\ (Returned("get_bbox") /\ args[1] \in DOMAIN frame_reader)
       => ret = <<BoxOf(args[1])>>

\* C1 witness: a chunk that lists a frame twice extracted it once, while
\* the orchestrating process has extracted a frame itself.
C1_Witness ==
  /\ \E k \in DOMAIN chunks : \E i \in DOMAIN frame_reader :
       /\ chunks[k].status = "done"
       /\ CountIn(chunks[k].idxs, i) = 2
       /\ CountIn(chunks[k].log, i) = 1
  /\ \E j \in DOMAIN parentRuns : parentRuns[j] = 1

\* C2: calc_all_boxes, when it returns, returns N boxes, the k-th being the
\* box of frame k-1 and not the sentinel, and the cache holds the same.
C2_CalcAllComplete ==
  Returned("calc_all_boxes") =>
    /\ Len(ret) = N
    /\ \A i \in 0 .. N - 1 :
         /\ ret[i + 1] = BoxOf(i)
         /\ ret[i + 1] # Sentinel
         /\ all_bboxes[i] = ret[i + 1]

\* C2 witness: a parallel calc_all_boxes returned that started from a cache
\* with a computed and a missing row.
C2_Witness ==
  /\ Returned("calc_all_boxes")
  /\ workers > 0
  /\ \E i, j \in DOMAIN before : before[i] # Sentinel /\ before[j] = Sentinel

\* C3: calc_specified_boxes, when it returns, returns one box per index
\* asked for, the k-th being the box of the k-th index.
C3_OrderPreserved ==
  Returned("calc_specified_boxes") =>
    /\ Len(ret) = Len(args)
    /\ \A k \in 1 .. Len(args) : ret[k] = BoxOf(args[k])

\* C3 witness: a parallel call with descending indices returned two
\* different boxes.
C3_Witness ==
  /\ Returned("calc_specified_boxes")
  /\ workers > 0
  /\ Len(args) >= 2
  /\ args[1] > args[2]
  /\ ret[1] # ret[2]

\* A chunk of the running batch has raised.
SomeChunkFailed == \E k \in DOMAIN chunks : chunks[k].status = "failed"

\* C4: once a chunk of a parallel batch has raised, the batch can only end
\* by raising, returning nothing and leaving the cache as it was when the
\* call started.
C4_ParallelFailureAtomic ==
  [][(pc = "parallel" /\ SomeChunkFailed) =>
       \/ pc' = "parallel"
       \/ /\ pc' = "returned"
          /\ err' # "none"
          /\ ret' = <<>>
          /\ all_bboxes' = before]_vars

\* C4 witness: a parallel batch has raised after one of its workers had
\* extracted a frame whose row is still the sentinel.
C4_Witness ==
  /\ pc = "returned"
  /\ lastOp \in BatchOps
  /\ workers > 0
  /\ err = "IndexError"
  /\ all_bboxes = before
  /\ \E i \in DOMAIN runs : runs[i] >= 1 /\ all_bboxes[i] = Sentinel

\* The cache rows a chunk's copy may have written: those of its indices.
ChunkRows(k) ==
  { Row(all_bboxes, chunks[k].idxs[m]) :
      m \in { x \in 1 .. Len(chunks[k].idxs) : RowInRange(all_bboxes, chunks[k].idxs[x]) } }

\* C5: while a parallel batch runs the cache of the orchestrating instance
\* does not change, and it changes only in the step that ends the batch
\* with every chunk done; a step of a worker changes the copy of one chunk
\* only, and a chunk's copy differs from the orchestrating instance's cache
\* in no row but those of its own indices.
C5_ParentCacheIsolated ==
  /\ [](pc = "parallel" =>
          \A k \in DOMAIN chunks : \A row \in DOMAIN all_bboxes :
            chunks[k].cache[row] # all_bboxes[row] => row \in ChunkRows(k))
  /\ [][pc = "parallel" =>
          /\ (all_bboxes' # all_bboxes =>
                /\ pc' = "returned"
                /\ \A k \in DOMAIN chunks : chunks[k].status = "done")
          /\ (pc' = "parallel" =>
                Cardinality({ k \in DOMAIN chunks : chunks'[k] # chunks[k] }) <= 1)]_vars

\* C5 witness: a chunk is done and its copy holds a row the orchestrating
\* instance does not, while another chunk has not run yet.
C5_Witness ==
  /\ pc = "parallel"
  /\ \E k, j \in DOMAIN chunks :
       /\ chunks[k].status = "done"
       /\ chunks[k].cache # all_bboxes
       /\ chunks[j].status = "queued"

\* C6 as stated: get_bbox with an index outside [0, N) raises an
\* IndexError-class error and returns no box.
C6_OutOfRangeRaises ==
  (pc = "returned" /\ lastOp = "get_bbox" /\ args[1] \notin 0 .. N - 1)
    => (err = "IndexError" /\ ret = <<>>)

\* C7 as stated: a write of the caller through a value all_bboxes() or
\* get_bbox() returned changes no cache row.
C7_NoExternalMutation ==
  [][(pc = "returned" /\ lastOp' = "caller_write") => all_bboxes' = all_bboxes]_vars

\* C8: while a batch runs in worker processes the orchestrating instance
\* has its background, every chunk's copy carries that same background, and
\* no worker has run the background computation.
C8_BackgroundBeforeFanOut ==
  pc = "parallel" =>
    /\ background # None
    /\ \A k \in DOMAIN chunks : chunks[k].bg = background /\ ~chunks[k].bgran

\* C8 witness: the first call on a fresh instance is a parallel batch, and
\* a worker has extracted a frame.
C8_Witness ==
  /\ pc = "parallel"
  /\ bgRuns = 1
  /\ \A i \in DOMAIN all_bboxes : all_bboxes[i] = Sentinel /\ parentRuns[i] = 0
  /\ \E k \in DOMAIN chunks : chunks[k].log # <<>>

\* C9: _calc_background runs at most once in the instance, the background
\* once set never changes, and get_background returns it.
C9_BackgroundOnce ==
  /\ [](bgRuns <= 1)
  /\ [](Returned("get_background") => ret = <<background>> /\ background # None)
  /\ [][background # None => background' = background]_vars

\* C9 witness: get_background returned after a box had been computed (the
\* background was there already).
C9_Witness ==
  /\ Returned("get_background")
  /\ bgRuns = 1
  /\ \E i \in DOMAIN all_bboxes : before[i] # Sentinel

\* C10: right after construction the cache has one row per frame, every
\* row is the sentinel and there is no background; all_bboxes() on an
\* instance that has computed nothing returns N sentinel rows.
C10_FreshInstance ==
  /\ Returned("init") =>
       /\ DOMAIN all_bboxes = 0 .. N - 1
       /\ \A i \in DOMAIN all_bboxes : all_bboxes[i] = Sentinel
       /\ background = None
  /\ (Returned("all_bboxes") /\ bgRuns = 0 /\ \A i \in DOMAIN runs : runs[i] = 0)
       => ret = [k \in 1 .. N |-> Sentinel]

\* C10 witness: all_bboxes() returned on an untouched instance of MaxN
\* frames.
C10_Witness ==
  /\ Returned("all_bboxes")
  /\ bgRuns = 0
  /\ N = MaxN
  /\ Len(ret) = MaxN

\* C11: the sentinel is never handed to a caller as a result: get_bbox of a
\* valid index returns a box other than the sentinel, and no box in the
\* sequence a batch call returns is the sentinel.
C11_SentinelNeverReturned ==
  /\ (Returned("get_bbox") /\ args[1] \in DOMAIN frame_reader)
       => (Len(ret) = 1 /\ ret[1] # Sentinel)
  /\ (pc = "returned" /\ lastOp \in BatchOps /\ err = "none")
       => \A k \in 1 .. Len(ret) : ret[k] # Sentinel

\* C11 witness: get_bbox returned the box of a frame whose row was the
\* sentinel when the call started.
C11_Witness ==
  /\ Returned("get_bbox")
  /\ args[1] \in DOMAIN frame_reader
  /\ before[args[1]] = Sentinel
  /\ ret = <<all_bboxes[args[1]]>>

\* C12: with num_workers unspecified, at least 4 processors and at least 4
\* full chunks of tasks, _adjust_num_workers resolves to a positive count of
\* at most num_tasks // chunk_size; for 1000 tasks in chunks of 50 on 8 or
\* more processors that is a positive count of at most 20.
C12_AutoWorkersPositive ==
  (pc = "adjusted" /\ args[3] = <<>>) =>
    /\ (args[4] >= 4 /\ args[1] >= 4 * args[2])
         => (workers > 0 /\ workers <= args[1] \div args[2])
    /\ (args[1] = 1000 /\ args[2] = 50 /\ args[4] >= 8)
         => (workers > 0 /\ workers <= 20)

\* C12 witness: 1000 tasks in chunks of 50 on 8 processors resolve to 4
\* workers.
C12_Witness ==
  /\ pc = "adjusted"
  /\ args = <<1000, 50, <<>>, 8>>
  /\ workers = 4

\* C16: whatever is asked for, _adjust_num_workers resolves to 0 or to a
\* count between 2 and num_tasks // chunk_size; it resolves to 0 whenever
\* there are fewer than two full chunks.
C16_WorkersZeroOrClamped ==
  pc = "adjusted" =>
    /\ \/ workers = 0
       \/ (workers >= 2 /\ workers <= args[1] \div args[2])
    /\ (args[1] \div args[2] < 2 => workers = 0)
    /\ ((args[1] = 40 /\ args[2] = 50) => workers = 0)

\* C16 witness: 25 workers asked for 12 tasks in chunks of 4 are cut down to
\* the 3 full chunks.
C16_Witness ==
  /\ pc = "adjusted"
  /\ args[1] = 12
  /\ args[2] = 4
  /\ args[3] = <<25>>
  /\ workers = 3

\* C13 as stated: construction with bg_probes <= 0 or diff_thresh <= 0
\* fails and yields no instance, so every instance has bg_probes > 0 and
\* diff_thresh > 0.
C13_ConstructionValidates ==
  pc # "new" => (bg_probes > 0 /\ diff_thresh > 0)

\* C14: the background computation samples min(bg_probes, N) distinct
\* frame indices, all in [0, N); with bg_probes >= N it samples every frame.
C14_SampleWithoutReplacement ==
  bgRuns >= 1 =>
    /\ Cardinality(bgSample) = Min(bg_probes, N)
    /\ bgSample \subseteq 0 .. N - 1
    /\ (bg_probes >= N => bgSample = 0 .. N - 1)

\* C14 witness: the background was computed with more probes asked for than
\* there are frames, and from every frame.
C14_Witness ==
  /\ bgRuns = 1
  /\ background # None
  /\ bg_probes > N
  /\ bgSample = 0 .. N - 1

\* A cache entry as the query interface expects it: the sentinel, or a
\* rectangle with no negative coordinate.
ValidEntry(box) ==
  \/ box = Sentinel
  \/ (box[1] >= 0 /\ box[2] >= 0 /\ box[3] >= 0 /\ box[4] >= 0)

\* C15: every cache entry, of the instance and of every chunk's copy, is the
\* sentinel or a rectangle with x, y, w, h >= 0, so an entry has x = -1
\* exactly when it is the sentinel.
C15_EntriesSentinelOrRectangle ==
  /\ \A i \in DOMAIN all_bboxes :
       /\ ValidEntry(all_bboxes[i])
       /\ (all_bboxes[i][1] = -1 <=> all_bboxes[i] = Sentinel)
  /\ \A k \in DOMAIN chunks : \A i \in DOMAIN chunks[k].cache :
       /\ ValidEntry(chunks[k].cache[i])
       /\ (chunks[k].cache[i][1] = -1 <=> chunks[k].cache[i] = Sentinel)

\* C15 witness: the cache holds a sentinel next to the box of an object.
C15_Witness ==
  \E i, j \in DOMAIN all_bboxes :
    /\ all_bboxes[i] = Sentinel
    /\ all_bboxes[j] # Sentinel
    /\ all_bboxes[j][3] > 0

\* C17: a computed cache entry persists: no step of the instance changes
\* a row that is not the sentinel.
C17_ComputedEntryPersists ==
  [][\A i \in DOMAIN all_bboxes :
       all_bboxes[i] # Sentinel => all_bboxes'[i] = all_bboxes[i]]_vars

\* C17 witness: a parallel batch returned that listed a frame whose row was
\* computed before the call; the merge left the row as it was.
C17_Witness ==
  /\ pc = "returned"
  /\ lastOp \in BatchOps
  /\ err = "none"
  /\ workers > 0
  /\ \E k \in 1 .. Len(args) :
       /\ before[args[k]] # Sentinel
       /\ all_bboxes[args[k]] = before[args[k]]

\* C18: frame conditions.  A step changes a cache row only if it belongs to
\* get_bbox of that index or to a batch call that lists the index; so
\* all_bboxes() and get_background() change no row, get_bbox(i) changes at
\* most row i, and a batch call changes only rows it was asked for.
C18_FrameConditions ==
  [][\A i \in DOMAIN all_bboxes :
       all_bboxes'[i] # all_bboxes[i] =>
         \/ (lastOp' = "get_bbox" /\ args' = <<i>>)
         \/ (lastOp' \in BatchOps /\ \E k \in 1 .. Len(args') : args'[k] = i)]_vars

\* C18 witness: calc_specified_boxes returned having filled a row it was
\* asked for, with a row it was not asked for still the sentinel.
C18_Witness ==
  /\ Returned("calc_specified_boxes")
  /\ \E i, j \in DOMAIN all_bboxes :
       /\ \E k \in 1 .. Len(args) : args[k] = i
       /\ before[i] = Sentinel
       /\ all_bboxes[i] # Sentinel
       /\ \A k \in 1 .. Len(args) : args[k] # j
       /\ all_bboxes[j] = Sentinel

\* C19: a batch call that ran in worker processes and returned has
\* returned the sequence, and left the cache, that the sequential loop
\* yields from the cache the call started with and the same background.
C19_ParallelEqualsSequential ==
  (pc = "returned" /\ lastOp \in BatchOps /\ err = "none" /\ workers > 0) =>
    LET r == RunIndices(before, frame_reader, background, diff_thresh, args)
    IN  /\ r.ok
        /\ ret = Rows(r.cache, args)
        /\ all_bboxes = r.cache

\* C19 witness: a parallel batch of three chunks returned after filling a
\* row, with two different boxes among those returned.
C19_Witness ==
  /\ pc = "returned"
  /\ lastOp = "calc_specified_boxes"
  /\ err = "none"
  /\ workers > 0
  /\ Len(args) = 3
  /\ all_bboxes # before
  /\ \E k, j \in 1 .. Len(ret) : ret[k] # ret[j]

\* The first position of the index list whose index the instance has no
\* frame for (0 if there is none).
FirstBad(idxs) ==
  IF \E k \in 1 .. Len(idxs) : idxs[k] \notin DOMAIN frame_reader
    THEN CHOOSE k \in 1 .. Len(idxs) :
           /\ idxs[k] \notin DOMAIN frame_reader
           /\ \A j \in 1 .. k - 1 : idxs[j] \in DOMAIN frame_reader
    ELSE 0

\* C20: a sequential batch whose index at position k raises ends with the
\* error and returns nothing; the rows of the indices before position k
\* hold their boxes, and every other row is as it was when the call started.
C20_SequentialFailurePartial ==
  (pc = "returned" /\ lastOp \in BatchOps /\ workers = 0 /\ FirstBad(args) > 0) =>
    /\ err = "IndexError"
    /\ ret = <<>>
    /\ \A j \in 1 .. FirstBad(args) - 1 :
         all_bboxes[args[j]] = BoxOf(args[j]) /\ all_bboxes[args[j]] # Sentinel
    /\ \A i \in DOMAIN all_bboxes :
         (\A j \in 1 .. FirstBad(args) - 1 : args[j] # i) => all_bboxes[i] = before[i]

\* C20 witness: a sequential batch raised after it had filled a row, with
\* another row left the sentinel.
C20_Witness ==
  /\ pc = "returned"
  /\ lastOp = "calc_specified_boxes"
  /\ workers = 0
  /\ err = "IndexError"
  /\ FirstBad(args) > 1
  /\ \E i, j \in DOMAIN all_bboxes :
       /\ before[i] = Sentinel
       /\ all_bboxes[i] # Sentinel
       /\ all_bboxes[j] = Sentinel

====
